---- MODULE Spec2Model ----
(***************************************************************************)
(* Model of on-prem-bitbucket-tests.py: the linear integration flow of     *)
(* main() and the two persistence helpers store_repo_data and              *)
(* check_db_for_hunk_info.                                                 *)
(*                                                                         *)
(* Three specifications share the variables:                               *)
(*   Spec       one run of main() against an environment whose external    *)
(*              calls (database, HTTP) succeed or fail nondeterministically*)
(*   SpecStore  store_repo_data called repeatedly on one open connection   *)
(*   SpecCheck  check_db_for_hunk_info called on one open connection while *)
(*              the downstream consumer writes rows of hunks               *)
(***************************************************************************)
EXTENDS Integers, Sequences, FiniteSets, TLC

VARIABLES
    repos,        \* table repos: a set of rows
    hunks,        \* table hunks: a set of rows
    clock,        \* seconds elapsed
    connection,   \* main's connection: "none" | "open" | "closed"
    remote,       \* TRUE while the remote repository exists
    pc,           \* index of main's next step in MainProgram
    status,       \* "idle" | "running" | "returned" | "raised"
    exc,          \* the exception main() terminated with, or "none"
    steps,        \* the steps main() has started, in order
    io,           \* the external calls performed, in order: [call, ok]
    log,          \* logger.error messages, in order
    out,          \* lines printed
    auth_info,    \* main's token bundle (0: not obtained)
    repo_info,    \* main's create-repository response (0: none)
    pr_info,      \* main's pull request response (0: none)
    hret,         \* the last direct helper call and what it did
    hphase,       \* "idle" | "slept": position inside check_db_for_hunk_info
    ncalls        \* direct helper calls started

vars == <<repos, hunks, clock, connection, remote, pc, status, exc, steps, io,
          log, out, auth_info, repo_info, pr_info, hret, hphase, ncalls>>

mainVars == <<connection, remote, pc, status, exc, steps, io, log, out,
              auth_info, repo_info, pr_info>>

----------------------------------------------------------------------------
(* Bounds *)

MaxVal == 2        \* distinct payload versions / response values
MaxPr == 2         \* distinct pull request identifiers
MaxHunkRows == 1   \* rows the hunks table may hold
MaxCalls == 2      \* direct helper calls in one behaviour

----------------------------------------------------------------------------
(* Configuration constants of the script *)

workspace == "alokit-innovations-test"
repo_name == "on-prem-bitbucket-test-repo"
Delay == 180

Names == {repo_name, "other-repo"}
Owners == {workspace, "other-owner"}
Providers == {"bitbucket", "github"}
Vals == 1..MaxVal
ReviewIds == 1..MaxPr

None == "None"

----------------------------------------------------------------------------
(* The repos table and the upsert statement *)

KeyOf(r) == <<r.repo_name, r.repo_owner, r.repo_provider>>

\* a faulty statement: a plain INSERT with no conflict clause and no unique key
UpsertInsertOnly(tbl, row) == tbl \cup {row}

\* INSERT ... ON CONFLICT (repo_name, repo_owner, repo_provider) DO UPDATE SET
\* auth_info, metadata, git_url = EXCLUDED.*
Upsert(tbl, row) ==
    IF \E r \in tbl : KeyOf(r) = KeyOf(row)
    THEN { IF KeyOf(r) = KeyOf(row)
           THEN [r EXCEPT !.auth_info = row.auth_info,
                          !.metadata = row.metadata,
                          !.git_url = row.git_url]
           ELSE r : r \in tbl }
    ELSE tbl \cup {row}

StoreOutcomes == {"ok", "cursor_fails", "execute_fails", "commit_fails"}

\* What one helper call did: the value returned (None when it raised), the
\* exception raised inside the try block, the exception that leaves the helper,
\* the messages logged, the statement handles opened and closed, the SQL
\* statements issued and the table afterwards.
HelperResult(ret, raised, leaves, logged, opened, closed, sql, tbl, conflict) ==
    [ret |-> ret, raised |-> raised, exc |-> leaves, logged |-> logged,
     opened |-> opened, closed |-> closed, sql |-> sql, table |-> tbl,
     conflict |-> conflict]

\* finally: if cur: cur.close()  -- cur is unbound when connection.cursor() raised
FinallyClose(curBound, raised) ==
    IF curBound THEN [closed |-> 1, exc |-> raised]
    ELSE [closed |-> 0, exc |-> "UnboundLocalError"]

store_repo_data(tbl, name, wsp, auth, provider, metadata, git_url, outcome) ==
    LET row == [repo_name |-> name, repo_owner |-> wsp, repo_provider |-> provider,
                auth_info |-> auth, metadata |-> metadata, git_url |-> git_url]
        conflict == \E r \in tbl : KeyOf(r) = KeyOf(row)
        msg == <<"Error storing repo data">>
    IN  CASE outcome = "ok" ->
               LET f == FinallyClose(TRUE, "none")
               IN HelperResult(None, "none", f.exc, <<>>, 1, f.closed,
                      <<[call |-> "sql:upsert", ok |-> TRUE],
                        [call |-> "sql:commit", ok |-> TRUE]>>,
                      Upsert(tbl, row), conflict)
          [] outcome = "cursor_fails" ->
               LET f == FinallyClose(FALSE, "InterfaceError")
               IN HelperResult(None, "InterfaceError", f.exc, msg, 0, f.closed,
                      <<>>, tbl, conflict)
          [] outcome = "execute_fails" ->
               LET f == FinallyClose(TRUE, "DatabaseError")
               IN HelperResult(None, "DatabaseError", f.exc, msg, 1, f.closed,
                      <<[call |-> "sql:upsert", ok |-> FALSE]>>, tbl, conflict)
          [] outcome = "commit_fails" ->
               LET f == FinallyClose(TRUE, "DatabaseError")
               IN HelperResult(None, "DatabaseError", f.exc, msg, 1, f.closed,
                      <<[call |-> "sql:upsert", ok |-> TRUE],
                        [call |-> "sql:commit", ok |-> FALSE]>>, tbl, conflict)

----------------------------------------------------------------------------
(* Direct calls of store_repo_data *)

\* the three written fields of one call carry the same version v, tagged by field
Payload(v) == [auth_info |-> <<"auth", v>>, metadata |-> <<"meta", v>>,
               git_url |-> <<"url", v>>]

NoCall == [fn |-> "none", args |-> <<>>, ret |-> None, raised |-> "none",
           exc |-> "none", logged |-> <<>>, opened |-> 0, closed |-> 0,
           sql |-> <<>>, conflict |-> FALSE, calledAt |-> 0, queriedAt |-> 0]

MainIdle ==
    /\ connection = "open" /\ remote = FALSE /\ pc = 0 /\ status = "idle"
    /\ exc = "none" /\ steps = <<>> /\ io = <<>> /\ log = <<>> /\ out = <<>>
    /\ auth_info = 0 /\ repo_info = 0 /\ pr_info = 0

InitStore ==
    /\ repos = {} /\ hunks = {} /\ clock = 0
    /\ MainIdle
    /\ hret = NoCall /\ hphase = "idle" /\ ncalls = 0

StoreCall ==
    /\ ncalls < MaxCalls
    /\ \E name \in Names, owner \in Owners, provider \in Providers,
          v \in Vals, outcome \in StoreOutcomes :
          LET p == Payload(v)
              r == store_repo_data(repos, name, owner, p.auth_info, provider,
                                   p.metadata, p.git_url, outcome)
          IN /\ repos' = r.table
             /\ hret' = [fn |-> "store_repo_data",
                         args |-> <<name, owner, provider, p.auth_info,
                                    p.metadata, p.git_url>>,
                         ret |-> r.ret, raised |-> r.raised, exc |-> r.exc,
                         logged |-> r.logged, opened |-> r.opened,
                         closed |-> r.closed, sql |-> r.sql,
                         conflict |-> r.conflict,
                         calledAt |-> clock, queriedAt |-> clock]
    /\ ncalls' = ncalls + 1
    /\ UNCHANGED <<hunks, clock, hphase>>
    /\ UNCHANGED mainVars

NextStore == StoreCall

SpecStore == InitStore /\ [][NextStore]_vars

----------------------------------------------------------------------------
(* The hunks table and the poll *)

HunkInfos == {"annotations", "NULL"}

HunkUniverse ==
    [review_id : ReviewIds, repo_name : Names, repo_owner : Owners,
     repo_provider : Providers, hunk_info : HunkInfos]

\* the contents hunks may have when a run starts: at most n rows
RECURSIVE TablesUpTo(_)
TablesUpTo(n) ==
    IF n = 0 THEN {{}}
    ELSE LET smaller == TablesUpTo(n - 1)
         IN smaller \cup {t \cup {h} : t \in smaller, h \in HunkUniverse}

\* a faulty WHERE clause: the repository columns are not compared
SelectHunkInfoByReviewOnly(tbl, pr_number, name, owner, provider) ==
    { <<h.hunk_info>> : h \in { x \in tbl : x.review_id = pr_number } }

\* SELECT hunk_info FROM hunks WHERE review_id=%s and repo_name=%s and
\* repo_owner=%s and repo_provider=%s : the result set, one 1-tuple per row
SelectHunkInfo(tbl, pr_number, name, owner, provider) ==
    { <<h.hunk_info>> : h \in { x \in tbl : /\ x.review_id = pr_number
                                            /\ x.repo_name = name
                                            /\ x.repo_owner = owner
                                            /\ x.repo_provider = provider } }

\* cur.fetchone(): the next row of the result set, or None
fetchone(rs) ==
    IF rs = {} THEN [found |-> FALSE, row |-> <<>>]
    ELSE [found |-> TRUE, row |-> CHOOSE x \in rs : TRUE]

\* bool(row): None is false, a tuple is true when it is not empty
PyBool(res) == res.found /\ Len(res.row) > 0

\* the returned bool as it prints
PyRepr(b) == IF b THEN "True" ELSE "False"

\* time.sleep(180)
time_sleep(t) == t + Delay

CheckOutcomes == {"ok", "cursor_fails", "execute_fails"}

\* the part of check_db_for_hunk_info after the sleep
check_db_for_hunk_info(tbl, pr_number, name, owner, provider, outcome) ==
    LET msg == <<"Error checking DB for hunk info">>
    IN  CASE outcome = "ok" ->
               LET f == FinallyClose(TRUE, "none")
                   row == fetchone(SelectHunkInfo(tbl, pr_number, name, owner,
                                                  provider))
               IN HelperResult(PyRepr(PyBool(row)), "none", f.exc, <<>>, 1, f.closed,
                      <<[call |-> "sql:select", ok |-> TRUE]>>, tbl, FALSE)
          [] outcome = "cursor_fails" ->
               LET f == FinallyClose(FALSE, "InterfaceError")
               IN HelperResult(None, "InterfaceError", f.exc, msg, 0, f.closed,
                      <<>>, tbl, FALSE)
          [] outcome = "execute_fails" ->
               LET f == FinallyClose(TRUE, "DatabaseError")
               IN HelperResult(None, "DatabaseError", f.exc, msg, 1, f.closed,
                      <<[call |-> "sql:select", ok |-> FALSE]>>, tbl, FALSE)

----------------------------------------------------------------------------
(* Direct calls of check_db_for_hunk_info, with the consumer writing hunks *)

InitCheck ==
    /\ repos = {} /\ hunks = {} /\ clock = 0
    /\ MainIdle
    /\ hret = NoCall /\ hphase = "idle" /\ ncalls = 0

\* the call is entered and sleeps
CheckCall ==
    /\ hphase = "idle"
    /\ ncalls < MaxCalls
    /\ \E pr \in ReviewIds, name \in Names, owner \in Owners,
          provider \in Providers :
          hret' = [NoCall EXCEPT !.fn = "check_db_for_hunk_info",
                                 !.args = <<pr, name, owner, provider>>,
                                 !.calledAt = clock]
    /\ clock' = time_sleep(clock)
    /\ hphase' = "slept"
    /\ ncalls' = ncalls + 1
    /\ UNCHANGED <<repos, hunks>>
    /\ UNCHANGED mainVars

\* the sleep is over: statement handle, query, fetch, return
CheckQuery ==
    /\ hphase = "slept"
    /\ \E outcome \in CheckOutcomes :
          LET a == hret.args
              r == check_db_for_hunk_info(hunks, a[1], a[2], a[3], a[4], outcome)
          IN hret' = [hret EXCEPT !.ret = r.ret, !.raised = r.raised,
                                  !.exc = r.exc, !.logged = r.logged,
                                  !.opened = r.opened, !.closed = r.closed,
                                  !.sql = r.sql, !.queriedAt = clock]
    /\ hphase' = "idle"
    /\ UNCHANGED <<repos, hunks, clock, ncalls>>
    /\ UNCHANGED mainVars

\* the downstream consumer, outside this script, records a hunk row
ConsumerWrites ==
    /\ Cardinality(hunks) < MaxHunkRows
    /\ \E h \in HunkUniverse : h \notin hunks /\ hunks' = hunks \cup {h}
    /\ UNCHANGED <<repos, clock, hret, hphase, ncalls>>
    /\ UNCHANGED mainVars

NextCheck == CheckCall \/ CheckQuery \/ ConsumerWrites

SpecCheck == InitCheck /\ [][NextCheck]_vars

----------------------------------------------------------------------------
(* main() *)

\* a faulty order: the pull request is raised before the record is stored
MainProgramPrFirst ==
    <<"create_db_connection", "get_oauth_token", "create_repo",
      "create_branch", "add_and_commit_change", "raise_pr", "store_repo_data",
      "simulate_webhook_event", "check_db_for_hunk_info", "delete_repo",
      "connection_close">>

\* the steps of main() in program order; raise_pr is its three requests
MainProgram ==
    <<"create_db_connection", "get_oauth_token", "create_repo",
      "store_repo_data", "create_branch", "add_and_commit_change", "raise_pr",
      "simulate_webhook_event", "check_db_for_hunk_info", "delete_repo",
      "connection_close">>

\* a step that changes nothing
Eff == [exc |-> "none", logged |-> <<>>, io |-> <<>>, printed |-> <<>>,
        ret |-> None, connection |-> connection, remote |-> remote,
        repos |-> repos, clock |-> clock, auth_info |-> auth_info,
        repo_info |-> repo_info, pr_info |-> pr_info]

\* requests.<verb>(...); response.raise_for_status(); except RequestException:
\* logger.error(...); raise
HttpFailed(call, msgs) ==
    [Eff EXCEPT !.io = <<[call |-> call, ok |-> FALSE]>>,
                !.exc = "RequestException", !.logged = msgs]

HttpOk(call, eff) == [eff EXCEPT !.io = <<[call |-> call, ok |-> TRUE]>>]

create_db_connection(o) ==
    IF o = "ok"
    THEN [Eff EXCEPT !.connection = "open",
                     !.io = <<[call |-> "db:connect", ok |-> TRUE]>>,
                     !.printed = <<"Successfully connected to the database.">>]
    ELSE [Eff EXCEPT !.connection = "none",
                     !.io = <<[call |-> "db:connect", ok |-> FALSE]>>,
                     !.logged = <<"Failed to connect to the database">>]

\* a faulty helper: the failure is logged and not re-raised
get_oauth_token_swallow(o, v) ==
    IF o = "ok" THEN HttpOk("POST access_token", [Eff EXCEPT !.auth_info = v])
    ELSE [Eff EXCEPT !.io = <<[call |-> "POST access_token", ok |-> FALSE]>>,
                     !.logged = <<"Error getting OAuth token">>]

get_oauth_token(o, v) ==
    IF o = "ok" THEN HttpOk("POST access_token", [Eff EXCEPT !.auth_info = v])
    ELSE HttpFailed("POST access_token", <<"Error getting OAuth token">>)

\* a faulty helper: the failure is logged and not re-raised
create_repo_swallow(o, v) ==
    IF o = "ok"
    THEN HttpOk("POST repository", [Eff EXCEPT !.remote = TRUE, !.repo_info = v])
    ELSE [Eff EXCEPT !.io = <<[call |-> "POST repository", ok |-> FALSE]>>,
                     !.logged = <<"Error creating repository">>]

create_repo(o, v) ==
    IF o = "ok"
    THEN HttpOk("POST repository", [Eff EXCEPT !.remote = TRUE, !.repo_info = v])
    ELSE HttpFailed("POST repository", <<"Error creating repository">>)

\* called inside raise_pr's try block: a failure is logged twice
create_branch(o) ==
    IF o = "ok" THEN HttpOk("POST refs/branches", Eff)
    ELSE HttpFailed("POST refs/branches",
                    <<"Error creating branch", "Error raising PR">>)

add_and_commit_change(o) ==
    IF o = "ok" THEN HttpOk("POST src", Eff)
    ELSE HttpFailed("POST src",
                    <<"Error adding and committing change", "Error raising PR">>)

\* raise_pr's own request, after the branch and the commit
raise_pr(o, v) ==
    IF o = "ok" THEN HttpOk("POST pullrequests", [Eff EXCEPT !.pr_info = v])
    ELSE HttpFailed("POST pullrequests", <<"Error raising PR">>)

simulate_webhook_event(o) ==
    IF o = "ok" THEN HttpOk("POST webhook", Eff)
    ELSE HttpFailed("POST webhook", <<"Error simulating webhook event">>)

delete_repo(o) ==
    IF o = "ok" THEN HttpOk("DELETE repository", [Eff EXCEPT !.remote = FALSE])
    ELSE HttpFailed("DELETE repository", <<"Error deleting repository">>)

\* def store_repo_data(connection, name, workspace, auth_info, provider,
\*                     metadata, git_url)
store_repo_data_params ==
    <<"connection", "name", "workspace", "auth_info", "provider", "metadata",
      "git_url">>

\* the positional arguments main() passes: the connection, the two constants,
\* json.dumps(auth_info), metadata (a 1-tuple: the assignment ends in a comma)
\* and git_url
MainStoreArgs ==
    <<connection, repo_name, workspace, <<"auth", auth_info>>,
      << <<"meta", repo_info>> >>, <<"url", repo_info>>>>

\* Python binds positional arguments to parameters one to one; with no
\* defaults a different count is a TypeError raised before the body runs
BindsPositionally(params, args) == Len(args) = Len(params)

CallStoreRepoData(o) ==
    LET a == MainStoreArgs
    IN  IF ~BindsPositionally(store_repo_data_params, a)
        THEN [Eff EXCEPT !.exc = "TypeError"]
        ELSE LET r == store_repo_data(repos, a[2], a[3], a[4], a[5], a[6],
                                      a[7], o)
             IN [Eff EXCEPT !.repos = r.table, !.exc = r.exc,
                            !.logged = r.logged, !.io = r.sql]

\* check_db_for_hunk_info(connection, pr_info['id'], repo_name, workspace,
\* 'bitbucket') as main() calls it: the sleep, then the query
CallCheckDb(o) ==
    LET r == check_db_for_hunk_info(hunks, pr_info, repo_name, workspace,
                                    "bitbucket", o)
    IN [Eff EXCEPT !.clock = time_sleep(clock),
                   !.io = <<[call |-> "sleep", ok |-> TRUE]>> \o r.sql,
                   !.exc = r.exc, !.logged = r.logged, !.ret = r.ret]

connection_close ==
    [Eff EXCEPT !.connection = "closed",
                !.io = <<[call |-> "db:close", ok |-> TRUE]>>,
                !.printed = <<"Database connection closed.">>]

Outcomes(op) ==
    CASE op = "store_repo_data" -> StoreOutcomes
      [] op = "check_db_for_hunk_info" -> CheckOutcomes
      [] op = "connection_close" -> {"ok"}
      [] OTHER -> {"ok", "fail"}

Call(op, o, v) ==
    CASE op = "create_db_connection" -> create_db_connection(o)
      [] op = "get_oauth_token" -> get_oauth_token(o, v)
      [] op = "create_repo" -> create_repo(o, v)
      [] op = "store_repo_data" -> CallStoreRepoData(o)
      [] op = "create_branch" -> create_branch(o)
      [] op = "add_and_commit_change" -> add_and_commit_change(o)
      [] op = "raise_pr" -> raise_pr(o, v)
      [] op = "simulate_webhook_event" -> simulate_webhook_event(o)
      [] op = "check_db_for_hunk_info" -> CallCheckDb(o)
      [] op = "delete_repo" -> delete_repo(o)
      [] op = "connection_close" -> connection_close

\* a faulty main(): the missing connection is not tested
ReturnsEarlyNever(op, r) == FALSE

\* if connection is None: logger.error(...); return
ReturnsEarly(op, r) == op = "create_db_connection" /\ r.connection = "none"

\* a faulty main(): every step is wrapped in a handler that carries on
MainControlCarryOn(op, r, last) ==
    IF (r.exc = "none" /\ op = "create_db_connection" /\ r.connection = "none")
       \/ last
    THEN "returned" ELSE "running"

\* how main() goes on after a step: an exception leaving a helper is not
\* caught, a missing connection returns, the last statement falls off the end
MainControl(op, r, last) ==
    IF r.exc # "none" THEN "raised"
    ELSE IF ReturnsEarly(op, r) \/ last THEN "returned"
    ELSE "running"

InitMain ==
    /\ repos = {}
    /\ hunks \in TablesUpTo(MaxHunkRows)
    /\ clock = 0
    /\ connection = "none" /\ remote = FALSE /\ pc = 1 /\ status = "running"
    /\ exc = "none" /\ steps = <<>> /\ io = <<>> /\ log = <<>> /\ out = <<>>
    /\ auth_info = 0 /\ repo_info = 0 /\ pr_info = 0
    /\ hret = NoCall /\ hphase = "idle" /\ ncalls = 0

MainStep ==
    /\ status = "running"
    /\ LET op == MainProgram[pc]
       IN \E o \in Outcomes(op), v \in Vals :
            LET r == Call(op, o, v)
                next == MainControl(op, r, pc = Len(MainProgram))
            IN /\ steps' = Append(steps, op)
               /\ io' = io \o r.io
               /\ log' = log \o r.logged \o
                         (IF ReturnsEarly(op, r)
                          THEN <<"Exiting due to database connection failure.">>
                          ELSE <<>>)
               /\ out' = out \o r.printed \o
                         (IF op = "check_db_for_hunk_info" /\ r.ret = "True"
                          THEN <<"Hunk info is stored in the database.">>
                          ELSE <<>>)
               /\ exc' = r.exc
               /\ status' = next
               /\ pc' = IF next = "running" THEN pc + 1 ELSE pc
               /\ connection' = r.connection
               /\ remote' = r.remote
               /\ repos' = r.repos
               /\ clock' = r.clock
               /\ auth_info' = r.auth_info
               /\ repo_info' = r.repo_info
               /\ pr_info' = r.pr_info
    /\ UNCHANGED <<hunks, hret, hphase, ncalls>>

Next == MainStep

Spec == InitMain /\ [][Next]_vars

----------------------------------------------------------------------------
(* Properties *)

Range(q) == {q[i] : i \in 1..Len(q)}

IsPrefix(p, q) == Len(p) <= Len(q) /\ \A i \in 1..Len(p) : p[i] = q[i]

\* how many times the external call c was performed
CountIo(c) == Cardinality({i \in 1..Len(io) : io[i].call = c})

Failed(c) == [call |-> c, ok |-> FALSE] \in Range(io)

Succeeded(c) == [call |-> c, ok |-> TRUE] \in Range(io)

Terminated == status \in {"returned", "raised"}

\* C1 (as claimed): a terminated run in which the connection was established,
\* no external call failed and hunks holds a row for the polled key has
\* performed exactly one upsert, waited the delay, reported the hunk info,
\* deleted the repository exactly once, closed the connection and returned
\* normally.
C1_HappyPathCompletes ==
    ( /\ Terminated
      /\ Succeeded("db:connect")
      /\ \A i \in 1..Len(io) : io[i].ok
      /\ \E h \in hunks : /\ h.repo_name = repo_name
                          /\ h.repo_owner = workspace
                          /\ h.repo_provider = "bitbucket"
                          /\ (pr_info # 0 => h.review_id = pr_info) )
    => ( /\ status = "returned"
         /\ exc = "none"
         /\ CountIo("sql:upsert") = 1
         /\ clock >= Delay
         /\ "Hunk info is stored in the database." \in Range(out)
         /\ CountIo("DELETE repository") = 1
         /\ connection = "closed" )

\* C2: the webhook request is made only after store_repo_data has issued and
\* committed the upsert in the same run.  (No run of main() reaches the
\* webhook request, so this holds of every reachable state without the case
\* it is about ever occurring.)
C2_RecordBeforeWebhook ==
    CountIo("POST webhook") > 0 =>
        Succeeded("sql:upsert") /\ Succeeded("sql:commit")

C2_WebhookNeverSent == CountIo("POST webhook") = 0

C4_TokenFailureStopsRun ==
    Failed("POST access_token") =>
        /\ status = "raised"
        /\ exc = "RequestException"
        /\ "Error getting OAuth token" \in Range(log)
        /\ steps[Len(steps)] = "get_oauth_token"
        /\ io[Len(io)] = [call |-> "POST access_token", ok |-> FALSE]
        /\ CountIo("POST repository") = 0
        /\ remote = FALSE

C4_Witness == Failed("POST access_token") /\ status = "raised"

\* C5: once repository creation has failed, no branch, commit, pull request,
\* webhook or upsert call is started and none of their requests or
\* statements is issued.
C5_CreateFailureStopsRun ==
    Failed("POST repository") =>
        /\ Range(steps) \cap {"create_branch", "add_and_commit_change",
                              "raise_pr", "simulate_webhook_event",
                              "store_repo_data"} = {}
        /\ \A i \in 1..Len(io) :
               io[i].call \notin {"POST refs/branches", "POST src",
                                  "POST pullrequests", "POST webhook",
                                  "sql:upsert", "sql:commit"}

C5_Witness == Failed("POST repository") /\ Terminated

\* C6: when the connection cannot be established the error is logged, main()
\* returns without an exception and the connection attempt is its only
\* external call; a run ended by any other failure ended with an exception.
C6_ConnectionFailureReturns ==
    /\ Failed("db:connect") =>
          /\ status = "returned"
          /\ exc = "none"
          /\ connection = "none"
          /\ log = <<"Failed to connect to the database",
                     "Exiting due to database connection failure.">>
          /\ io = <<[call |-> "db:connect", ok |-> FALSE]>>
          /\ steps = <<"create_db_connection">>
    /\ (\E i \in 1..Len(io) : ~io[i].ok /\ io[i].call # "db:connect") =>
          status = "raised" /\ exc # "none"

C6_Witness == Failed("db:connect") /\ status = "returned"

\* C9: no step is started twice and no external call is made twice; a failure
\* is the last thing a run does; a run that failed after the repository was
\* created leaves the repository in place and the connection open.
C9_FailureAbortsNoCleanup ==
    /\ \A i, j \in 1..Len(steps) : steps[i] = steps[j] => i = j
    /\ \A i, j \in 1..Len(io) : io[i].call = io[j].call => i = j
    /\ \A i \in 1..Len(io) : ~io[i].ok => i = Len(io)
    /\ ((\E i \in 1..Len(io) : ~io[i].ok) \/ exc # "none") => Terminated
    /\ (status = "raised" /\ Succeeded("POST repository")
            /\ ~Failed("DELETE repository")) =>
          /\ remote = TRUE
          /\ connection = "open"
          /\ CountIo("DELETE repository") = 0
          /\ CountIo("db:close") = 0

C9_Witness ==
    /\ status = "raised" /\ Succeeded("POST repository")
    /\ remote = TRUE /\ connection = "open"

\* the step in which a direct call of check_db_for_hunk_info queries and returns
QueryStep == hphase = "slept" /\ hphase' = "idle"

MatchingHunks(a) ==
    {h \in hunks : /\ h.review_id = a[1] /\ h.repo_name = a[2]
                   /\ h.repo_owner = a[3] /\ h.repo_provider = a[4]}

\* C7: check_db_for_hunk_info queries only when the full delay has passed
\* since it was called, issues at most one query (exactly one when the
\* statement handle was obtained), and when the query succeeds returns True
\* exactly if hunks holds a row for the four values it was given and False
\* otherwise, without raising.
C7_SingleCheckAfterDelay ==
    [][ QueryStep =>
          /\ hret'.queriedAt >= hret.calledAt + Delay
          /\ Len(hret'.sql) <= 1
          /\ (hret'.opened = 1 => Len(hret'.sql) = 1)
          /\ \A i \in 1..Len(hret'.sql) : hret'.sql[i].call = "sql:select"
          /\ ((\A i \in 1..Len(hret'.sql) : hret'.sql[i].ok) /\ hret'.opened = 1) =>
                /\ hret'.exc = "none"
                /\ hret'.ret = (IF MatchingHunks(hret.args) # {}
                                THEN "True" ELSE "False") ]_vars

C7_Witness ==
    /\ hret.fn = "check_db_for_hunk_info" /\ hphase = "idle"
    /\ hret.ret = "True" /\ hret.queriedAt >= Delay

\* the step of a direct call of store_repo_data
StoreStep == ncalls' = ncalls + 1 /\ hret'.fn = "store_repo_data"

\* C8: repos never holds two rows with one key; a successful store_repo_data
\* call whose key is present adds no row, writes its auth_info, metadata and
\* git_url into the row of that key and leaves every other row as it was; one
\* whose key is absent adds exactly its row.
C8_IdempotentUpsert ==
    /\ [](\A r1, r2 \in repos : KeyOf(r1) = KeyOf(r2) => r1 = r2)
    /\ [][ (StoreStep /\ hret'.exc = "none") =>
             LET a == hret'.args
                 k == <<a[1], a[2], a[3]>>
                 new == [repo_name |-> a[1], repo_owner |-> a[2],
                         repo_provider |-> a[3], auth_info |-> a[4],
                         metadata |-> a[5], git_url |-> a[6]]
             IN /\ new \in repos'
                /\ {r \in repos' : KeyOf(r) # k} = {r \in repos : KeyOf(r) # k}
                /\ {r \in repos' : KeyOf(r) = k} = {new}
                /\ (hret'.conflict <=> \E r \in repos : KeyOf(r) = k)
                /\ hret'.conflict =>
                       Cardinality(repos') = Cardinality(repos) ]_vars

C8_Witness ==
    /\ hret.fn = "store_repo_data" /\ hret.exc = "none" /\ hret.conflict
    /\ ncalls = 2
    /\ \E r \in repos : /\ KeyOf(r) = <<hret.args[1], hret.args[2], hret.args[3]>>
                        /\ r.git_url = <<"url", 2>>

\* C10 (as claimed): after a direct store_repo_data call every statement handle
\* opened was closed, the connection is still open, and an exception raised
\* inside the helper was logged and is the exception that leaves it.
C10_SameExceptionReraised ==
    hret.fn = "store_repo_data" =>
        /\ hret.closed = hret.opened
        /\ connection = "open"
        /\ hret.raised # "none" =>
              /\ hret.logged = <<"Error storing repo data">>
              /\ hret.exc = hret.raised

====
